---- MODULE Spec2Model ----
(***************************************************************************)
(* A model of the TSC2046 touch-screen controller driver (src/src/lib.rs,  *)
(* src/src/types.rs): command-word assembly over the ControlBit bitflags,  *)
(* the 12-bit sample decoding of read_axis, the f32 pressure formula of    *)
(* get_touch, and the driver's operations over a bus whose transactions    *)
(* may fail.                                                               *)
(***************************************************************************)
EXTENDS Integers, Sequences, FiniteSets, TLC

(***************************************************************************)
(* Integer helpers: powers of two and bitwise operations on u8 / u16.      *)
(***************************************************************************)
RECURSIVE Pow2(_)
Pow2(n) == IF n = 0 THEN 1 ELSE 2 * Pow2(n - 1)

RECURSIVE BitAndW(_, _, _)
BitAndW(a, b, w) ==
    IF w = 0 THEN 0
    ELSE (a % 2) * (b % 2) + 2 * BitAndW(a \div 2, b \div 2, w - 1)

RECURSIVE BitOrW(_, _, _)
BitOrW(a, b, w) ==
    IF w = 0 THEN 0
    ELSE (IF (a % 2) + (b % 2) > 0 THEN 1 ELSE 0)
         + 2 * BitOrW(a \div 2, b \div 2, w - 1)

\* floor(log2 n) for n >= 1
RECURSIVE Log2Floor(_)
Log2Floor(n) == IF n < 2 THEN 0 ELSE 1 + Log2Floor(n \div 2)

(***************************************************************************)
(* types.rs: the ControlBit bitflags (u8) and the Axes enumeration.        *)
(***************************************************************************)
PD0 == 1
PD1 == 2
SER == 4
MODE == 8
A0 == 16
A1 == 32
A2 == 64
S == 128

\* the union of all declared flags: what bitflags' `!` truncates to
ControlBitAll == 255

YPOS == A0
Z1 == BitOrW(A1, A0, 8)
Z2 == A2
XPOS == BitOrW(A2, A0, 8)

\* bitflags operators on ControlBit: `|`, `&`, `!`
FlagOr(a, b) == BitOrW(a, b, 8)
FlagAnd(a, b) == BitAndW(a, b, 8)
FlagNot(a) == BitAndW(255 - a, ControlBitAll, 8)

Axes == {"X", "Y", "Z1", "Z2"}

ctrl_bits_swapped(axis) ==
    CASE axis = "X" -> YPOS
      [] axis = "Y" -> XPOS
      [] axis = "Z1" -> Z1
      [] axis = "Z2" -> Z2

ctrl_bits(axis) ==
    CASE axis = "X" -> XPOS
      [] axis = "Y" -> YPOS
      [] axis = "Z1" -> Z1
      [] axis = "Z2" -> Z2

(***************************************************************************)
(* lib.rs read_axis, lines 91-102: the command word of a channel read.     *)
(***************************************************************************)
PowerDownBits_inverted(word, irq) ==
    IF irq
    THEN FlagOr(FlagOr(word, PD0), PD1)
    ELSE FlagAnd(FlagAnd(word, FlagNot(PD0)), FlagNot(PD1))

PowerDownBits(word, irq) ==
    IF irq
    THEN FlagAnd(FlagAnd(word, FlagNot(PD0)), FlagNot(PD1))
    ELSE FlagOr(FlagOr(word, PD0), PD1)

read_axis_word(axis, irq) ==
    LET w0 == S
        w1 == FlagAnd(w0, FlagNot(MODE))
        w2 == FlagAnd(w1, FlagNot(SER))
        w3 == FlagOr(w2, ctrl_bits(axis))
    IN  PowerDownBits(w3, irq)

(***************************************************************************)
(* lib.rs update_register, lines 63-73: the configuration command word.    *)
(***************************************************************************)
update_register_word(irq) ==
    LET w0 == S
        w1 == FlagAnd(w0, FlagNot(MODE))
        w2 == FlagAnd(w1, FlagNot(SER))
        w3 == FlagOr(w2, ctrl_bits("X"))
    IN  IF irq
        THEN FlagAnd(FlagAnd(w3, FlagNot(PD0)), FlagNot(PD1))
        ELSE FlagOr(FlagOr(w3, PD0), PD1)

(***************************************************************************)
(* lib.rs read_axis, line 109:                                             *)
(*   (((buf[0] as u16) << 8 | buf[1] as u16) >> 3) & 0xFFF                 *)
(* The shift left is a u16 shift (bits above 15 are lost).                 *)
(***************************************************************************)
\* the two reply bytes combined little-endian
decode_little_endian(buf) ==
    BitAndW(BitOrW((buf[2] * 256) % 65536, buf[1], 16) \div 8, 4095, 16)

\* without the final `& 0xFFF`
decode_no_mask(buf) ==
    BitOrW((buf[1] * 256) % 65536, buf[2], 16) \div 8

decode(buf) ==
    BitAndW(BitOrW((buf[1] * 256) % 65536, buf[2], 16) \div 8, 4095, 16)

(***************************************************************************)
(* IEEE-754 binary32 (Rust f32) arithmetic, round-to-nearest-even.         *)
(* A value is [cls, sign, man, exp]: cls "fin" is (-1)^sign * man * 2^exp  *)
(* with man = 0 (a signed zero, exp = 0) or 2^23 <= man < 2^24; cls "inf"  *)
(* is a signed infinity; cls "nan" is a NaN.  The exponents this driver    *)
(* can produce (operands are u16 values, 4096.0 and 1.0) stay far inside   *)
(* binary32's normal range, so overflow and subnormals are not modelled.   *)
(* All intermediate integers stay below 2^31.                              *)
(***************************************************************************)
ManBits == 24

ManMin == Pow2(ManBits - 1)
ManMax == Pow2(ManBits)

F32NaN == [cls |-> "nan", sign |-> 0, man |-> 0, exp |-> 0]
F32Inf(sg) == [cls |-> "inf", sign |-> sg, man |-> 0, exp |-> 0]
F32Zero(sg) == [cls |-> "fin", sign |-> sg, man |-> 0, exp |-> 0]
F32Fin(sg, m, e) == [cls |-> "fin", sign |-> sg, man |-> m, exp |-> e]

IsNaN(a) == a.cls = "nan"
IsInf(a) == a.cls = "inf"
IsZero(a) == a.cls = "fin" /\ a.man = 0
SignXor(a, b) == (a.sign + b.sign) % 2

\* an exactly representable m * 2^e with 0 < m < 2^24, normalised
F32Exact(sg, m, e) ==
    LET sh == (ManBits - 1) - Log2Floor(m)
    IN  F32Fin(sg, m * Pow2(sh), e - sh)

\* round-to-nearest-even of (m + rem/(2*half)) * 2^e, 2^23 <= m < 2^24,
\* 0 <= rem < 2*half
F32Round(sg, m, rem, half, e) ==
    LET up == rem > half \/ (rem = half /\ m % 2 = 1)
        m1 == IF up THEN m + 1 ELSE m
    IN  IF m1 = ManMax THEN F32Fin(sg, ManMin, e + 1) ELSE F32Fin(sg, m1, e)

\* `n as f32` for a u16 n: exact
U16ToF32(n) == IF n = 0 THEN F32Zero(0) ELSE F32Exact(0, n, 0)

\* k steps of binary long division: <<floor(r * 2^k / d) + q * 2^k, remainder>>
RECURSIVE LongDiv(_, _, _, _)
LongDiv(q, r, d, k) ==
    IF k = 0 THEN <<q, r>>
    ELSE IF 2 * r >= d
         THEN LongDiv(2 * q + 1, 2 * r - d, d, k - 1)
         ELSE LongDiv(2 * q, 2 * r, d, k - 1)

F32Div(a, b) ==
    IF IsNaN(a) \/ IsNaN(b) THEN F32NaN
    ELSE IF IsInf(a) THEN (IF IsInf(b) THEN F32NaN ELSE F32Inf(SignXor(a, b)))
    ELSE IF IsInf(b) THEN F32Zero(SignXor(a, b))
    ELSE IF IsZero(b) THEN (IF IsZero(a) THEN F32NaN ELSE F32Inf(SignXor(a, b)))
    ELSE IF IsZero(a) THEN F32Zero(SignXor(a, b))
    ELSE LET k == IF a.man >= b.man THEN ManBits - 1 ELSE ManBits
             qr == LongDiv(a.man \div b.man, a.man % b.man, b.man, k)
         IN  F32Round(SignXor(a, b), qr[1], 2 * qr[2], b.man, a.exp - b.exp - k)

\* the 48-bit product of two 24-bit mantissas as <<high 24 bits, low 24 bits>>,
\* from 12-bit limbs
MulWide(ma, mb) ==
    LET ah == ma \div 4096
        al == ma % 4096
        bh == mb \div 4096
        bl == mb % 4096
        ll == al * bl
        mid == ah * bl + al * bh + (ll \div 4096)
        hi == ah * bh + (mid \div 4096)
    IN  <<hi, (mid % 4096) * 4096 + (ll % 4096)>>

F32Mul(a, b) ==
    IF IsNaN(a) \/ IsNaN(b) THEN F32NaN
    ELSE IF IsInf(a) \/ IsInf(b)
         THEN (IF IsZero(a) \/ IsZero(b) THEN F32NaN ELSE F32Inf(SignXor(a, b)))
    ELSE IF IsZero(a) \/ IsZero(b) THEN F32Zero(SignXor(a, b))
    ELSE LET p == MulWide(a.man, b.man)
             e == a.exp + b.exp + ManBits
         IN  IF p[1] >= ManMin
             THEN F32Round(SignXor(a, b), p[1], p[2], ManMin, e)
             ELSE F32Round(SignXor(a, b), 2 * p[1] + (p[2] \div ManMin),
                           p[2] % ManMin, ManMin \div 2, e - 1)

\* |a| < |b| for finite non-zero a, b
MagLess(a, b) ==
    \/ a.exp < b.exp
    \/ a.exp = b.exp /\ a.man < b.man

\* m shifted right by d bits, the bits lost kept as a sticky low bit
ShiftSticky(m, d) ==
    IF d >= 31 THEN 1
    ELSE LET q == m \div Pow2(d)
         IN  IF m % Pow2(d) # 0 /\ q % 2 = 0 THEN q + 1 ELSE q

\* the sum of finite non-zero big and small, |big| >= |small|,
\* computed with three extra low bits (guard, round, sticky)
AddAligned(big, small) ==
    LET mb == big.man * 8
        ms == ShiftSticky(small.man * 8, big.exp - small.exp)
        r == IF big.sign = small.sign THEN mb + ms ELSE mb - ms
        e == big.exp - 3
    IN  IF r = 0 THEN F32Zero(0)
        ELSE IF r >= 8 * ManMax
             THEN F32Round(big.sign, r \div 16, r % 16, 8, e + 4)
        ELSE LET sh == (ManBits + 2) - Log2Floor(r)
                 rn == r * Pow2(sh)
             IN  F32Round(big.sign, rn \div 8, rn % 8, 4, e + 3 - sh)

F32Add(a, b) ==
    IF IsNaN(a) \/ IsNaN(b) THEN F32NaN
    ELSE IF IsInf(a) THEN (IF IsInf(b) /\ a.sign # b.sign THEN F32NaN ELSE a)
    ELSE IF IsInf(b) THEN b
    ELSE IF IsZero(a) /\ IsZero(b)
         THEN F32Zero(IF a.sign = 1 /\ b.sign = 1 THEN 1 ELSE 0)
    ELSE IF IsZero(a) THEN b
    ELSE IF IsZero(b) THEN a
    ELSE IF MagLess(a, b) THEN AddAligned(b, a) ELSE AddAligned(a, b)

F32Neg(a) == IF IsNaN(a) THEN a ELSE [a EXCEPT !.sign = 1 - a.sign]

F32Sub(a, b) == F32Add(a, F32Neg(b))

\* IEEE `<`: false when either side is NaN; -0.0 and +0.0 are equal
F32Lt(a, b) ==
    IF IsNaN(a) \/ IsNaN(b) THEN FALSE
    ELSE IF IsInf(a) THEN a.sign = 1 /\ ~(IsInf(b) /\ b.sign = 1)
    ELSE IF IsInf(b) THEN b.sign = 0
    ELSE IF IsZero(a) THEN ~IsZero(b) /\ b.sign = 0
    ELSE IF IsZero(b) THEN a.sign = 1
    ELSE IF a.sign # b.sign THEN a.sign = 1
    ELSE IF a.sign = 0 THEN MagLess(a, b) ELSE MagLess(b, a)

\* IEEE `==`
F32Eq(a, b) ==
    IF IsNaN(a) \/ IsNaN(b) THEN FALSE
    ELSE IF IsZero(a) /\ IsZero(b) THEN TRUE
    ELSE a = b

F32Le(a, b) == F32Lt(a, b) \/ F32Eq(a, b)

\* float literals of lib.rs
F32_4096 == F32Exact(0, 4096, 0)
F32_One == F32Exact(0, 1, 0)

(***************************************************************************)
(* lib.rs get_touch, line 146:                                             *)
(*   x_raw as f32 / 4096_f32 * (z2_raw as f32 / z1_raw as f32 - 1.0f32)    *)
(***************************************************************************)
z_value(x_raw, z1_raw, z2_raw) ==
    F32Mul(F32Div(U16ToF32(x_raw), F32_4096),
           F32Sub(F32Div(U16ToF32(z2_raw), U16ToF32(z1_raw)), F32_One))

(***************************************************************************)
(* The bus collaborator (embedded_hal SpiDevice::transaction): each        *)
(* transaction either succeeds, filling the read buffer with the chip's    *)
(* two reply bytes, or fails with an opaque error.  The replies the bus    *)
(* may give are drawn from the lists below; the bounds say how many        *)
(* entries of each list are in play.                                       *)
(***************************************************************************)
NumErrKinds == 2
NumThresholds == 6
NumXReplies == 3
NumYReplies == 1
NumZ1Replies == 3
NumZ2Replies == 3
NumConfigReplies == 1

\* 100.0, 10.0, -1.0, +inf, NaN, 0.0, -inf, 0.5, 409.0
ThresholdList ==
    << F32Exact(0, 100, 0), F32Exact(0, 10, 0), F32Exact(1, 1, 0), F32Inf(0),
       F32NaN, F32Zero(0), F32Inf(1), F32Exact(0, 1, -1), F32Exact(0, 409, 0) >>

\* reply bytes for samples 100, 0, 4095 (top bit and low bits set), 100 (same), 2048
XReplyList == << <<3, 32>>, <<0, 0>>, <<255, 255>>, <<131, 39>>, <<64, 0>> >>
\* 100, 4095 (top bit and low bits set), 0 (low bits set), 7
YReplyList == << <<3, 32>>, <<255, 255>>, <<0, 7>>, <<0, 56>> >>
\* 5, 0, 4095, 0 (low bits set), 10
Z1ReplyList == << <<0, 40>>, <<0, 0>>, <<127, 248>>, <<128, 7>>, <<0, 80>> >>
\* 2053, 0, 4095, 5, 10, 2048
Z2ReplyList == << <<64, 40>>, <<0, 0>>, <<127, 248>>, <<0, 40>>, <<0, 80>>, <<64, 0>> >>
\* what the chip answers to a configuration transaction (ignored by the driver)
ConfigReplyList == << <<0, 0>>, <<3, 32>>, <<255, 255>> >>

Thresholds == {ThresholdList[i] : i \in 1..NumThresholds}
ErrKinds == 1..NumErrKinds

OkReply(buf) == [ok |-> TRUE, err |-> 0, buf |-> buf]
ErrReply(e) == [ok |-> FALSE, err |-> e, buf |-> <<0, 0>>]

ErrReplies == {ErrReply(e) : e \in ErrKinds}
XReplies == {OkReply(XReplyList[i]) : i \in 1..NumXReplies}
YReplies == {OkReply(YReplyList[i]) : i \in 1..NumYReplies}
Z1Replies == {OkReply(Z1ReplyList[i]) : i \in 1..NumZ1Replies}
Z2Replies == {OkReply(Z2ReplyList[i]) : i \in 1..NumZ2Replies}
ConfigReplies == {OkReply(ConfigReplyList[i]) : i \in 1..NumConfigReplies} \cup ErrReplies

\* what the bus may answer to the transactions of one get_touch call: the
\* call stops at the first failure, so a run is a sequence of successes that
\* is either four long or ends in one failure
BusRuns ==
    UNION { {<<e>> : e \in ErrReplies},
            {<<x, e>> : x \in XReplies, e \in ErrReplies},
            {<<x, y, e>> : x \in XReplies, y \in YReplies, e \in ErrReplies},
            {<<x, y, a, e>> : x \in XReplies, y \in YReplies, a \in Z1Replies,
                              e \in ErrReplies \cup Z2Replies} }

(***************************************************************************)
(* The command words, the decoded samples and the pressure figures of the  *)
(* replies above, tabulated once: a step of the model looks the value up   *)
(* where it is tabulated and computes it otherwise.                        *)
(***************************************************************************)
ReadAxisWordTable ==
    [axis \in Axes |-> [irq \in BOOLEAN |-> read_axis_word(axis, irq)]]

ListedBufs ==
    UNION { {XReplyList[i] : i \in 1..NumXReplies},
            {YReplyList[i] : i \in 1..NumYReplies},
            {Z1ReplyList[i] : i \in 1..NumZ1Replies},
            {Z2ReplyList[i] : i \in 1..NumZ2Replies} }

DecodeTable == [buf \in ListedBufs |-> decode(buf)]

decoded(buf) == IF buf \in ListedBufs THEN DecodeTable[buf] ELSE decode(buf)

XSamples == {decode(XReplyList[i]) : i \in 1..NumXReplies}
Z1Samples == {decode(Z1ReplyList[i]) : i \in 1..NumZ1Replies}
Z2Samples == {decode(Z2ReplyList[i]) : i \in 1..NumZ2Replies}

ZValueTable ==
    [x \in XSamples |-> [z1 \in Z1Samples |-> [z2 \in Z2Samples |->
        z_value(x, z1, z2)]]]

z_value_of(x_raw, z1_raw, z2_raw) ==
    IF x_raw \in XSamples /\ z1_raw \in Z1Samples /\ z2_raw \in Z2Samples
    THEN ZValueTable[x_raw][z1_raw][z2_raw]
    ELSE z_value(x_raw, z1_raw, z2_raw)

(***************************************************************************)
(* lib.rs lines 76-79 and 105-108: one transaction is                      *)
(*   [Operation::Write(&[control_word.bits()]), Operation::Read(&mut buf)] *)
(* with buf = [0_u8; 2].  The record keeps the operations as issued and    *)
(* the bus's reply.                                                        *)
(***************************************************************************)
\* the same with a read buffer of one byte ([0_u8; 1])
Transaction_one_byte_read(control_word, reply) ==
    [ops |-> << [kind |-> "Write", bytes |-> <<control_word>>],
                [kind |-> "Read", bytes |-> <<0>>] >>,
     reply |-> reply]

Transaction(control_word, reply) ==
    [ops |-> << [kind |-> "Write", bytes |-> <<control_word>>],
                [kind |-> "Read", bytes |-> <<0, 0>>] >>,
     reply |-> reply]

\* lib.rs update_register (62-80): the transaction and its result
update_register(irq, reply) ==
    [tx |-> Transaction(update_register_word(irq), reply),
     ok |-> reply.ok, err |-> reply.err]

\* lib.rs read_axis (90-110): the transaction and, if it succeeded, the sample
read_axis(axis, irq, reply) ==
    [tx |-> Transaction(ReadAxisWordTable[axis][irq], reply),
     ok |-> reply.ok, err |-> reply.err,
     val |-> IF reply.ok THEN decoded(reply.buf) ELSE 0]

(***************************************************************************)
(* Results of the public operations.                                       *)
(***************************************************************************)
NoTouchPoint == [x |-> 0, y |-> 0, z |-> F32Zero(0)]
ResNone == [kind |-> "NoCall", err |-> 0, tp |-> NoTouchPoint]
ResOk == [kind |-> "Ok", err |-> 0, tp |-> NoTouchPoint]
ResErr(e) == [kind |-> "Err", err |-> e, tp |-> NoTouchPoint]
ResAbsent == [kind |-> "OkNone", err |-> 0, tp |-> NoTouchPoint]
ResTouch(x, y, z) == [kind |-> "OkSome", err |-> 0, tp |-> [x |-> x, y |-> y, z |-> z]]

\* lib.rs get_touch, lines 146-155 with a `<=` comparison
touch_decision_le(x_raw, y_raw, z1_raw, z2_raw, threshold) ==
    LET z == z_value_of(x_raw, z1_raw, z2_raw)
    IN  IF F32Le(z, threshold) THEN ResTouch(x_raw, y_raw, z) ELSE ResAbsent

\* lib.rs get_touch, lines 146-155 with the decision written as
\* "not (threshold <= z)", which differs from `z < threshold` on NaN
touch_decision_not_ge(x_raw, y_raw, z1_raw, z2_raw, threshold) ==
    LET z == z_value_of(x_raw, z1_raw, z2_raw)
    IN  IF ~F32Le(threshold, z) THEN ResTouch(x_raw, y_raw, z) ELSE ResAbsent

\* lib.rs get_touch, lines 146-155: the pressure figure and the decision
touch_decision(x_raw, y_raw, z1_raw, z2_raw, threshold) ==
    LET z == z_value_of(x_raw, z1_raw, z2_raw)
    IN  IF F32Lt(z, threshold) THEN ResTouch(x_raw, y_raw, z) ELSE ResAbsent

\* get_touch reading Y before X
get_touch_run_yx(irq, threshold, run) ==
    LET ry == read_axis("Y", irq, run[1])
        rx == read_axis("X", irq, run[2])
        r1 == read_axis("Z1", irq, run[3])
        r2 == read_axis("Z2", irq, run[4])
    IN  IF ~ry.ok THEN [trace |-> <<ry.tx>>, result |-> ResErr(ry.err)]
        ELSE IF ~rx.ok THEN [trace |-> <<ry.tx, rx.tx>>, result |-> ResErr(rx.err)]
        ELSE IF ~r1.ok
             THEN [trace |-> <<ry.tx, rx.tx, r1.tx>>, result |-> ResErr(r1.err)]
        ELSE IF ~r2.ok
             THEN [trace |-> <<ry.tx, rx.tx, r1.tx, r2.tx>>, result |-> ResErr(r2.err)]
        ELSE [trace |-> <<ry.tx, rx.tx, r1.tx, r2.tx>>,
              result |-> touch_decision(rx.val, ry.val, r1.val, r2.val, threshold)]

\* get_touch issuing a failed channel read a second time before giving up
get_touch_run_retry(irq, threshold, run) ==
    LET rx == read_axis("X", irq, run[1])
        ry == read_axis("Y", irq, run[2])
        r1 == read_axis("Z1", irq, run[3])
        r2 == read_axis("Z2", irq, run[4])
    IN  IF ~rx.ok THEN [trace |-> <<rx.tx, rx.tx>>, result |-> ResErr(rx.err)]
        ELSE IF ~ry.ok
             THEN [trace |-> <<rx.tx, ry.tx, ry.tx>>, result |-> ResErr(ry.err)]
        ELSE IF ~r1.ok
             THEN [trace |-> <<rx.tx, ry.tx, r1.tx, r1.tx>>, result |-> ResErr(r1.err)]
        ELSE IF ~r2.ok
             THEN [trace |-> <<rx.tx, ry.tx, r1.tx, r2.tx, r2.tx>>,
                   result |-> ResErr(r2.err)]
        ELSE [trace |-> <<rx.tx, ry.tx, r1.tx, r2.tx>>,
              result |-> touch_decision(rx.val, ry.val, r1.val, r2.val, threshold)]

\* lib.rs get_touch (141-156) against the bus answers `run`: four reads in
\* program order, each `?` returning the error at once
get_touch_run(irq, threshold, run) ==
    LET rx == read_axis("X", irq, run[1])
        ry == read_axis("Y", irq, run[2])
        r1 == read_axis("Z1", irq, run[3])
        r2 == read_axis("Z2", irq, run[4])
    IN  IF ~rx.ok THEN [trace |-> <<rx.tx>>, result |-> ResErr(rx.err)]
        ELSE IF ~ry.ok THEN [trace |-> <<rx.tx, ry.tx>>, result |-> ResErr(ry.err)]
        ELSE IF ~r1.ok
             THEN [trace |-> <<rx.tx, ry.tx, r1.tx>>, result |-> ResErr(r1.err)]
        ELSE IF ~r2.ok
             THEN [trace |-> <<rx.tx, ry.tx, r1.tx, r2.tx>>, result |-> ResErr(r2.err)]
        ELSE [trace |-> <<rx.tx, ry.tx, r1.tx, r2.tx>>,
              result |-> touch_decision(rx.val, ry.val, r1.val, r2.val, threshold)]

(***************************************************************************)
(* State.                                                                  *)
(*   alive            whether a Tsc2046 instance exists                    *)
(*   irq_on           Tsc2046::irq_on                                      *)
(*   touch_threshold  Tsc2046::touch_threshold                             *)
(*   last             the most recent call: operation, arguments, result,  *)
(*                    and the driver state before it                       *)
(*   trace            the transactions the most recent call issued         *)
(*   given            the irq flag most recently given (by new or          *)
(*                    set_irq), whether that call's transaction            *)
(*                    succeeded, and the threshold most recently given     *)
(*                    (by new or set_touch_threshold)                      *)
(*   probe            a reply under test: sample v, low bits d, top bit,   *)
(*                    the two bytes, and whether it has been read          *)
(*   ref              a result the caller kept: the irq flag, threshold    *)
(*                    and four replies of one completed get_touch, what    *)
(*                    it returned, and whether a get_touch with other      *)
(*                    replies or another threshold, or a failed one, has   *)
(*                    run since                                            *)
(***************************************************************************)
VARIABLES alive, irq_on, touch_threshold, last, trace, given, probe, ref

vars == <<alive, irq_on, touch_threshold, last, trace, given, probe, ref>>

DriverState == [alive |-> alive, irq_on |-> irq_on, touch_threshold |-> touch_threshold]

Call(op, arg_irq, arg_thr, result) ==
    [op |-> op, arg_irq |-> arg_irq, arg_thr |-> arg_thr, result |-> result,
     pre |-> DriverState]

NoProbe == [v |-> 0, d |-> 0, top |-> 0, buf |-> <<0, 0>>, done |-> FALSE]

NoRef ==
    [set |-> FALSE, irq |-> FALSE, thr |-> F32Zero(0), bufs |-> <<>>,
     result |-> ResNone, other |-> FALSE]

Init ==
    /\ alive = FALSE
    /\ irq_on = FALSE
    /\ touch_threshold = F32Zero(0)
    /\ last = [op |-> "none", arg_irq |-> FALSE, arg_thr |-> F32Zero(0),
               result |-> ResNone,
               pre |-> [alive |-> FALSE, irq_on |-> FALSE,
                        touch_threshold |-> F32Zero(0)]]
    /\ trace = <<>>
    /\ given = [irq |-> FALSE, ok |-> FALSE, thr |-> F32Zero(0)]
    /\ probe = NoProbe
    /\ ref = NoRef

\* Tsc2046::new that hands out the instance whatever update_register returns
new_keeps_instance ==
    /\ ~alive
    /\ \E irq \in BOOLEAN, thr \in Thresholds, reply \in ConfigReplies :
         LET u == update_register(irq, reply)
         IN  /\ trace' = <<u.tx>>
             /\ given' = [irq |-> irq, ok |-> u.ok, thr |-> thr]
             /\ last' = Call("new", irq, thr, IF u.ok THEN ResOk ELSE ResErr(u.err))
             /\ alive' = TRUE
             /\ irq_on' = irq
             /\ touch_threshold' = thr
    /\ UNCHANGED <<probe, ref>>

\* lib.rs Tsc2046::new (44-56): build the instance, update_register()?, Ok(instance).
\* On Err the instance is dropped: no driver exists.
new ==
    /\ ~alive
    /\ \E irq \in BOOLEAN, thr \in Thresholds, reply \in ConfigReplies :
         LET u == update_register(irq, reply)
         IN  /\ trace' = <<u.tx>>
             /\ given' = [irq |-> irq, ok |-> u.ok, thr |-> thr]
             /\ last' = Call("new", irq, thr, IF u.ok THEN ResOk ELSE ResErr(u.err))
             /\ IF u.ok
                THEN /\ alive' = TRUE
                     /\ irq_on' = irq
                     /\ touch_threshold' = thr
                ELSE UNCHANGED <<alive, irq_on, touch_threshold>>
    /\ UNCHANGED <<probe, ref>>

\* Tsc2046::set_irq that stores the flag only once the transaction succeeded;
\* the command word is still built from the new flag
set_irq_rollback ==
    /\ alive
    /\ \E enable_irq \in BOOLEAN, reply \in ConfigReplies :
         LET u == update_register(enable_irq, reply)
         IN  /\ irq_on' = IF u.ok THEN enable_irq ELSE irq_on
             /\ trace' = <<u.tx>>
             /\ given' = [irq |-> enable_irq, ok |-> u.ok, thr |-> given.thr]
             /\ last' = Call("set_irq", enable_irq, touch_threshold,
                             IF u.ok THEN ResOk ELSE ResErr(u.err))
    /\ UNCHANGED <<alive, touch_threshold, probe, ref>>

\* Tsc2046::set_irq that runs update_register() before storing the flag, so that
\* the command word carries the previous flag
set_irq_stale_word ==
    /\ alive
    /\ \E enable_irq \in BOOLEAN, reply \in ConfigReplies :
         LET u == update_register(irq_on, reply)
         IN  /\ irq_on' = enable_irq
             /\ trace' = <<u.tx>>
             /\ given' = [irq |-> enable_irq, ok |-> u.ok, thr |-> given.thr]
             /\ last' = Call("set_irq", enable_irq, touch_threshold,
                             IF u.ok THEN ResOk ELSE ResErr(u.err))
    /\ UNCHANGED <<alive, touch_threshold, probe, ref>>

\* lib.rs Tsc2046::set_irq (121-124): self.irq_on = enable_irq; self.update_register()
set_irq ==
    /\ alive
    /\ \E enable_irq \in BOOLEAN, reply \in ConfigReplies :
         LET u == update_register(enable_irq, reply)
         IN  /\ irq_on' = enable_irq
             /\ trace' = <<u.tx>>
             /\ given' = [irq |-> enable_irq, ok |-> u.ok, thr |-> given.thr]
             /\ last' = Call("set_irq", enable_irq, touch_threshold,
                             IF u.ok THEN ResOk ELSE ResErr(u.err))
    /\ UNCHANGED <<alive, touch_threshold, probe, ref>>

\* Tsc2046::set_touch_threshold that clamps the value to the documented range
\* "between 0.0 and inf"
set_touch_threshold_clamped ==
    /\ alive
    /\ \E value \in Thresholds :
         /\ touch_threshold' = IF F32Lt(value, F32Zero(0)) THEN F32Zero(0) ELSE value
         /\ last' = Call("set_touch_threshold", irq_on, value, ResOk)
         /\ given' = [given EXCEPT !.thr = value]
    /\ trace' = <<>>
    /\ UNCHANGED <<alive, irq_on, probe, ref>>

\* lib.rs Tsc2046::set_touch_threshold (131-133)
set_touch_threshold ==
    /\ alive
    /\ \E value \in Thresholds :
         /\ touch_threshold' = value
         /\ last' = Call("set_touch_threshold", irq_on, value, ResOk)
         /\ given' = [given EXCEPT !.thr = value]
    /\ trace' = <<>>
    /\ UNCHANGED <<alive, irq_on, probe, ref>>

\* a get_touch that switches the irq flag off when a read fails
get_touch_call_drops_irq(run) ==
    LET out == get_touch_run(irq_on, touch_threshold, run)
    IN  /\ trace' = out.trace
        /\ last' = Call("get_touch", irq_on, touch_threshold, out.result)
        /\ irq_on' = IF out.result.kind = "Err" THEN FALSE ELSE irq_on
        /\ UNCHANGED <<alive, touch_threshold, given>>

\* a get_touch that hands out the previous call's result again when that call
\* completed (a sample cached across calls)
get_touch_call_cached(run) ==
    LET out == get_touch_run(irq_on, touch_threshold, run)
        cached == /\ last.op = "get_touch"
                  /\ last.result.kind \in {"OkSome", "OkNone"}
                  /\ out.result.kind # "Err"
    IN  /\ trace' = out.trace
        /\ last' = Call("get_touch", irq_on, touch_threshold,
                        IF cached THEN last.result ELSE out.result)
        /\ UNCHANGED <<alive, irq_on, touch_threshold, given>>

\* one get_touch call against the bus answers `run`
get_touch_call(run) ==
    LET out == get_touch_run(irq_on, touch_threshold, run)
    IN  /\ trace' = out.trace
        /\ last' = Call("get_touch", irq_on, touch_threshold, out.result)
        /\ UNCHANGED <<alive, irq_on, touch_threshold, given>>

\* lib.rs Tsc2046::get_touch (141-156)
get_touch ==
    /\ alive
    /\ \E run \in BusRuns : get_touch_call(run)
    /\ UNCHANGED <<probe, ref>>

Next ==
    \/ new
    \/ set_irq
    \/ set_touch_threshold
    \/ get_touch

Spec == Init /\ [][Next]_vars

(***************************************************************************)
(* Decoding under test.  A 12-bit sample v is packed as the tests pack it  *)
(* (lib.rs 215-218: [(V >> 5) as u8, (V << 3) as u8]), with the three low  *)
(* bits d and the top bit of the first byte free: v, d and top together    *)
(* range over all 65536 byte pairs.  The driver, as new(spi, false, +inf)  *)
(* returned it, then runs one get_touch whose X and Y replies are the      *)
(* packed bytes and whose pressure replies are those of the tests          *)
(* (5 and 2053), so that a touch is always reported.                       *)
(***************************************************************************)
MaxSample == 4095
MaxDontCare == 7

Encode(v, d, top) == <<(v \div 32) + 128 * top, ((v * 8) % 256) + d>>

DecodeInit ==
    /\ \E v \in 0..MaxSample, d \in 0..MaxDontCare, top \in 0..1 :
         probe = [v |-> v, d |-> d, top |-> top, buf |-> Encode(v, d, top),
                  done |-> FALSE]
    /\ alive = TRUE
    /\ irq_on = FALSE
    /\ touch_threshold = F32Inf(0)
    /\ last = [op |-> "new", arg_irq |-> FALSE, arg_thr |-> F32Inf(0),
               result |-> ResOk,
               pre |-> [alive |-> FALSE, irq_on |-> FALSE,
                        touch_threshold |-> F32Zero(0)]]
    /\ trace = <<update_register(FALSE, OkReply(<<0, 0>>)).tx>>
    /\ given = [irq |-> FALSE, ok |-> TRUE, thr |-> F32Inf(0)]
    /\ ref = NoRef

probe_get_touch ==
    /\ alive
    /\ ~probe.done
    /\ get_touch_call(<<OkReply(probe.buf), OkReply(probe.buf),
                        OkReply(Z1ReplyList[1]), OkReply(Z2ReplyList[1])>>)
    /\ probe' = [probe EXCEPT !.done = TRUE]
    /\ UNCHANGED ref

DecodeNext == probe_get_touch

DecodeSpec == DecodeInit /\ [][DecodeNext]_vars

(***************************************************************************)
(* Vocabulary of the properties.                                           *)
(***************************************************************************)
\* the byte a transaction wrote
WriteByte(tx) == tx.ops[1].bytes[1]

\* the order in which get_touch is documented to read the channels
ChannelOrder == <<"X", "Y", "Z1", "Z2">>

\* the documented command bytes (lib.rs 165-173)
DocumentedWord(axis, irq) ==
    CASE axis = "X" /\ ~irq -> 211    \* 0b11010011
      [] axis = "Y" /\ ~irq -> 147    \* 0b10010011
      [] axis = "Z1" /\ ~irq -> 179   \* 0b10110011
      [] axis = "Z2" /\ ~irq -> 195   \* 0b11000011
      [] axis = "X" /\ irq -> 208     \* 0b11010000
      [] axis = "Y" /\ irq -> 144     \* 0b10010000
      [] axis = "Z1" /\ irq -> 176    \* 0b10110000
      [] axis = "Z2" /\ irq -> 192    \* 0b11000000

\* the 12-bit sample two reply bytes stand for, by arithmetic
RawOf(buf) == ((buf[1] * 256 + buf[2]) \div 8) % 4096

\* the two PowerDown bits of a command byte
PowerDownField(byte) == byte % 4

AllOk == \A i \in 1..Len(trace) : trace[i].reply.ok

\* the last call was a get_touch all of whose transactions succeeded
TouchDone == last.op = "get_touch" /\ Len(trace) = 4 /\ AllOk

Ten == [cls |-> "fin", sign |-> 0, man |-> 10485760, exp |-> -20]

(***************************************************************************)
(* Independence of samples under test.  The driver is as new(spi, irq, t)  *)
(* returned it, for either irq flag and the first thresholds of the list;  *)
(* set_irq is that of Spec, set_touch_threshold draws from the same first  *)
(* thresholds and get_touch is answered from a smaller set of bus runs     *)
(* (the X and Y replies of the tests, the first pressure replies of the    *)
(* lists, one kind of bus error).  The caller may keep the result of one   *)
(* completed call, with the irq flag, threshold and replies it was         *)
(* obtained under, to compare later results against.                       *)
(***************************************************************************)
NumSampleThresholds == 2
NumSampleZ1 == 2
NumSampleZ2 == 2

SampleThresholds == {ThresholdList[i] : i \in 1..NumSampleThresholds}

SampleRuns ==
    LET x == OkReply(XReplyList[1])
        y == OkReply(YReplyList[1])
        e == ErrReply(1)
    IN  UNION { { <<e>>, <<x, e>>, <<x, y, e>> },
                { <<x, y, OkReply(Z1ReplyList[i]), e>> : i \in 1..NumSampleZ1 },
                { <<x, y, OkReply(Z1ReplyList[i]), OkReply(Z2ReplyList[j])>> :
                    i \in 1..NumSampleZ1, j \in 1..NumSampleZ2 } }

\* the reply bytes of the transactions of a call
ReplyBufs(tr) == [i \in 1..Len(tr) |-> tr[i].reply.buf]

SampleInit ==
    /\ \E irq \in BOOLEAN, thr \in SampleThresholds :
         /\ irq_on = irq
         /\ touch_threshold = thr
         /\ last = [op |-> "new", arg_irq |-> irq, arg_thr |-> thr,
                    result |-> ResOk,
                    pre |-> [alive |-> FALSE, irq_on |-> FALSE,
                             touch_threshold |-> F32Zero(0)]]
         /\ trace = <<update_register(irq, OkReply(ConfigReplyList[1])).tx>>
         /\ given = [irq |-> irq, ok |-> TRUE, thr |-> thr]
    /\ alive = TRUE
    /\ probe = NoProbe
    /\ ref = NoRef

\* lib.rs Tsc2046::set_touch_threshold (131-133), values from SampleThresholds
sample_set_touch_threshold ==
    /\ alive
    /\ \E value \in SampleThresholds :
         /\ touch_threshold' = value
         /\ last' = Call("set_touch_threshold", irq_on, value, ResOk)
         /\ given' = [given EXCEPT !.thr = value]
    /\ trace' = <<>>
    /\ UNCHANGED <<alive, irq_on, probe, ref>>

\* lib.rs Tsc2046::get_touch (141-156), answered from SampleRuns
sample_get_touch ==
    /\ alive
    /\ \E run \in SampleRuns :
         /\ get_touch_call(run)
         /\ ref' = IF /\ ref.set
                      /\ ~(/\ TouchDone'
                           /\ touch_threshold = ref.thr
                           /\ ReplyBufs(trace') = ref.bufs)
                   THEN [ref EXCEPT !.other = TRUE]
                   ELSE ref
    /\ UNCHANGED probe

\* the caller keeps what the completed get_touch just returned
remember ==
    /\ TouchDone
    /\ ~ref.set
    /\ ref' = [set |-> TRUE, irq |-> irq_on, thr |-> touch_threshold,
               bufs |-> ReplyBufs(trace), result |-> last.result,
               other |-> FALSE]
    /\ UNCHANGED <<alive, irq_on, touch_threshold, last, trace, given, probe>>

SampleNext ==
    \/ set_irq
    \/ sample_set_touch_threshold
    \/ sample_get_touch
    \/ remember

SampleSpec == SampleInit /\ [][SampleNext]_vars

(***************************************************************************)
(* C1.  For each of the four channels and both irq states the command      *)
(* word equals the documented byte, as computed and as written on the bus  *)
(* by every channel read of get_touch.                                     *)
(***************************************************************************)
C1_CommandWords ==
    /\ \A axis \in Axes, irq \in BOOLEAN :
         read_axis_word(axis, irq) = DocumentedWord(axis, irq)
    /\ last.op = "get_touch" =>
         \A i \in 1..Len(trace) :
            WriteByte(trace[i]) = DocumentedWord(ChannelOrder[i], irq_on)

C1_Witness ==
    /\ TouchDone
    /\ irq_on
    /\ WriteByte(trace[4]) = 192

(***************************************************************************)
(* C2.  A get_touch whose transactions all succeed issues exactly four     *)
(* transactions, for X, Y, Z1, Z2 in that order, each writing the command  *)
(* word of its channel then reading two bytes; and a get_touch that did    *)
(* not fail on the bus returned a result, not an error.                    *)
(***************************************************************************)
C2_FourReadsInOrder ==
    last.op = "get_touch" =>
      /\ Len(trace) \in 1..4
      /\ AllOk => /\ Len(trace) = 4
                  /\ last.result.kind \in {"OkSome", "OkNone"}
      /\ last.result.kind \in {"OkSome", "OkNone"} => TouchDone
      /\ \A i \in 1..Len(trace) :
           /\ Len(trace[i].ops) = 2
           /\ trace[i].ops[1].kind = "Write"
           /\ trace[i].ops[1].bytes = <<DocumentedWord(ChannelOrder[i], last.pre.irq_on)>>
           /\ trace[i].ops[2].kind = "Read"
           /\ Len(trace[i].ops[2].bytes) = 2

C2_Witness ==
    /\ TouchDone
    /\ last.result.kind = "OkSome"
    /\ WriteByte(trace[1]) = 211
    /\ WriteByte(trace[2]) = 147

(***************************************************************************)
(* C3.  After a successful get_touch with samples x, y, z1 > 0, z2 and     *)
(* threshold t, with z = (x/4096) * (z2/z1 - 1) in f32: z < t gives        *)
(* exactly the touch point {x, y, z}, z >= t gives the absent result; and  *)
(* x = 100, y = 100, z1 = 5, z2 = 2053, t = 100.0 gives {100, 100, 10.0}.  *)
(***************************************************************************)
C3_TouchDecision ==
    TouchDone /\ RawOf(trace[3].reply.buf) > 0 =>
      LET x == RawOf(trace[1].reply.buf)
          y == RawOf(trace[2].reply.buf)
          z1 == RawOf(trace[3].reply.buf)
          z2 == RawOf(trace[4].reply.buf)
          z == z_value(x, z1, z2)
      IN  /\ F32Lt(z, touch_threshold) => last.result = ResTouch(x, y, z)
          /\ F32Le(touch_threshold, z) => last.result = ResAbsent
          /\ x = 100 /\ y = 100 /\ z1 = 5 /\ z2 = 2053
               /\ touch_threshold = F32Exact(0, 100, 0)
             => last.result = ResTouch(100, 100, Ten)

C3_Witness ==
    /\ TouchDone
    /\ touch_threshold = F32Exact(0, 100, 0)
    /\ trace[3].reply.buf = <<0, 40>>
    /\ trace[4].reply.buf = <<64, 40>>
    /\ last.result = ResTouch(100, 100, Ten)

(***************************************************************************)
(* C4.  Decoding round-trips: for every 12-bit V and every value d of the  *)
(* three low bits, the reply [(V >> 5), ((V << 3) & 0xFF) | d] is decoded  *)
(* to exactly V (seen as the x and y of the touch point returned).         *)
(***************************************************************************)
C4_DecodeRoundTrip ==
    probe.done /\ probe.top = 0 =>
      /\ trace[1].reply.buf = <<probe.v \div 32, ((probe.v * 8) % 256) + probe.d>>
      /\ trace[2].reply.buf = trace[1].reply.buf
      /\ last.result.kind = "OkSome"
      /\ last.result.tp.x = probe.v
      /\ last.result.tp.y = probe.v

C4_Witness ==
    /\ probe.done
    /\ probe.top = 0
    /\ probe.v = 2053
    /\ probe.d = 5
    /\ last.result.tp.x = 2053

(***************************************************************************)
(* C5.  Whenever the Pressure-1 sample is 0 and all four transactions      *)
(* succeed, get_touch returns the absent result, never an error and never  *)
(* a touch, whatever x, y, Pressure-2 and the threshold are.               *)
(***************************************************************************)
C5_ZeroPressure1IsNoTouch ==
    TouchDone /\ RawOf(trace[3].reply.buf) = 0 => last.result = ResAbsent

C5_Witness ==
    /\ TouchDone
    /\ RawOf(trace[3].reply.buf) = 0
    /\ RawOf(trace[1].reply.buf) > 0
    /\ RawOf(trace[4].reply.buf) > 0
    /\ touch_threshold = F32Inf(0)
    /\ last.result = ResAbsent

(***************************************************************************)
(* C6.  The two PowerDown bits of every command word written are the       *)
(* complement of the irq flag most recently given by new or set_irq; with  *)
(* the flag true, the channel reads of get_touch write the IRQ-enabled     *)
(* words 0b11010000, 0b10010000, 0b10110000, 0b11000000.                   *)
(***************************************************************************)
C6_PowerDownFollowsIrq ==
    /\ \A i \in 1..Len(trace) :
         PowerDownField(WriteByte(trace[i])) = IF given.irq THEN 0 ELSE 3
    /\ last.op = "get_touch" /\ given.irq =>
         \A i \in 1..Len(trace) : WriteByte(trace[i]) = <<208, 144, 176, 192>>[i]

C6_Witness ==
    /\ TouchDone
    /\ given.irq
    /\ given.ok
    /\ WriteByte(trace[3]) = 176

(***************************************************************************)
(* C7.  If the configuration transaction of new fails, new returns that    *)
(* bus error and no driver exists afterwards, so that no operation can be  *)
(* issued on it; if it succeeds a driver holding the given irq flag and    *)
(* threshold exists.                                                       *)
(***************************************************************************)
C7_NewFailsWithoutInstance ==
    /\ last.op = "new" =>
         /\ Len(trace) = 1
         /\ ~trace[1].reply.ok =>
              /\ last.result = ResErr(trace[1].reply.err)
              /\ ~alive
         /\ trace[1].reply.ok =>
              /\ last.result = ResOk
              /\ alive
              /\ irq_on = last.arg_irq
              /\ touch_threshold = last.arg_thr
    /\ ~alive =>
         /\ last.op \in {"none", "new"}
         /\ ~ENABLED (set_irq \/ set_touch_threshold \/ get_touch)

C7_Witness ==
    /\ last.op = "new"
    /\ last.result.kind = "Err"
    /\ ~trace[1].reply.ok
    /\ ~alive

(***************************************************************************)
(* C8.  A set_irq(e) whose transaction fails returns the bus error and     *)
(* still leaves the stored flag equal to e; the channel reads of a later   *)
(* get_touch carry the PowerDown bits for e.                               *)
(***************************************************************************)
C8_SetIrqKeepsFlagOnFailure ==
    /\ last.op = "set_irq" /\ ~trace[1].reply.ok =>
         /\ last.result = ResErr(trace[1].reply.err)
         /\ irq_on = last.arg_irq
         /\ ~given.ok
    /\ alive /\ ~given.ok => irq_on = given.irq
    /\ last.op = "get_touch" /\ ~given.ok =>
         \A i \in 1..Len(trace) :
            PowerDownField(WriteByte(trace[i])) = IF given.irq THEN 0 ELSE 3

C8_Witness ==
    /\ last.op = "set_irq"
    /\ last.result.kind = "Err"
    /\ last.pre.irq_on # last.arg_irq
    /\ irq_on = last.arg_irq

(***************************************************************************)
(* C9.  Every touch point returned has 0.0 <= z < touch_threshold.         *)
(***************************************************************************)
C9_PressureInRange ==
    last.op = "get_touch" /\ last.result.kind = "OkSome" =>
      /\ F32Le(F32Zero(0), last.result.tp.z)
      /\ F32Lt(last.result.tp.z, touch_threshold)

(***************************************************************************)
(* C10.  For every pair of reply bytes b0, b1 the sample read is           *)
(* ((b0*256 + b1) >> 3) & 0xFFF, so the x and y of the touch point lie in  *)
(* 0..4095 and neither the top bit of b0 nor the low three bits of b1      *)
(* affect them.                                                            *)
(***************************************************************************)
C10_SampleIsTwelveBits ==
    probe.done =>
      LET b0 == trace[1].reply.buf[1]
          b1 == trace[1].reply.buf[2]
      IN  /\ <<b0, b1>> = probe.buf
          /\ trace[2].reply.buf = probe.buf
          /\ last.result.kind = "OkSome"
          /\ last.result.tp.x = ((b0 * 256 + b1) \div 8) % 4096
          /\ last.result.tp.y = last.result.tp.x
          /\ last.result.tp.x \in 0..4095
          /\ last.result.tp.x = RawOf(<<b0 % 128, b1 - (b1 % 8)>>)

C10_Witness ==
    /\ probe.done
    /\ probe.buf = <<255, 255>>
    /\ last.result.tp.x = 4095
    /\ last.result.tp.y = 4095

C12_FailureLeavesStateUnchanged ==
    last.op \in {"new", "set_irq", "get_touch"} /\ last.result.kind = "Err" =>
      /\ irq_on = last.pre.irq_on
      /\ touch_threshold = last.pre.touch_threshold

(***************************************************************************)
(* C13.  new(spi, irq, t) and set_irq(e) each issue exactly one            *)
(* transaction; its write byte is the X-channel command word built with    *)
(* the flag just given (not the one stored before): 0b11010000 if the flag *)
(* is true, 0b11010011 if false, the word a read of channel X sends with   *)
(* that flag.                                                              *)
(***************************************************************************)
C13_ConfigWordUsesNewFlag ==
    last.op \in {"new", "set_irq"} =>
      /\ Len(trace) = 1
      /\ WriteByte(trace[1]) = IF last.arg_irq THEN 208 ELSE 211
      /\ WriteByte(trace[1]) = read_axis_word("X", last.arg_irq)
      /\ last.op = "set_irq" =>
           WriteByte(trace[1]) = read_axis_word("X", irq_on)
      /\ last.op = "new" /\ alive =>
           WriteByte(trace[1]) = read_axis_word("X", irq_on)

C13_Witness ==
    /\ last.op = "set_irq"
    /\ ~last.pre.irq_on
    /\ last.arg_irq
    /\ Len(trace) = 1
    /\ WriteByte(trace[1]) = 208

(***************************************************************************)
(* C14.  set_touch_threshold(value) cannot fail, issues no transaction,    *)
(* leaves the irq flag unchanged and stores value as the threshold; every  *)
(* later get_touch compares z against the threshold most recently given:   *)
(* a touch is returned exactly when z < that threshold.  (A result already *)
(* returned is a value held by the caller, out of the driver's reach.)     *)
(***************************************************************************)
C14_ThresholdOnlyLocal ==
    /\ last.op = "set_touch_threshold" =>
         /\ last.result = ResOk
         /\ trace = <<>>
         /\ alive
         /\ irq_on = last.pre.irq_on
         /\ touch_threshold = last.arg_thr
         /\ given.thr = last.arg_thr
    /\ alive => touch_threshold = given.thr
    /\ TouchDone =>
         LET z == z_value(RawOf(trace[1].reply.buf), RawOf(trace[3].reply.buf),
                          RawOf(trace[4].reply.buf))
         IN  (last.result.kind = "OkSome") = F32Lt(z, given.thr)

\* a set_touch_threshold that replaced 10.0 by 100.0 on a driver with irq on
C14_Witness ==
    /\ last.op = "set_touch_threshold"
    /\ last.pre.touch_threshold = F32Exact(0, 10, 0)
    /\ last.arg_thr = F32Exact(0, 100, 0)
    /\ touch_threshold = F32Exact(0, 100, 0)
    /\ last.pre.irq_on
    /\ irq_on
    /\ trace = <<>>

(***************************************************************************)
(* C15.  Every transaction issued, by new, set_irq or get_touch, is        *)
(* exactly two operations in this order: a write of exactly 1 byte, then a *)
(* read of exactly 2 bytes; and the byte written has the Start bit (bit 7) *)
(* set and the Mode (bit 3) and SER (bit 2) bits clear.  (trace holds the  *)
(* transactions of the most recent call, so holding in every reachable     *)
(* state covers every transaction ever issued.)                            *)
(***************************************************************************)
C15_TransactionShape ==
    /\ last.op \in {"new", "set_irq", "get_touch"} => Len(trace) >= 1
    /\ \A i \in 1..Len(trace) :
         /\ Len(trace[i].ops) = 2
         /\ trace[i].ops[1].kind = "Write"
         /\ Len(trace[i].ops[1].bytes) = 1
         /\ trace[i].ops[2].kind = "Read"
         /\ Len(trace[i].ops[2].bytes) = 2
         /\ WriteByte(trace[i]) \in 0..255
         /\ (WriteByte(trace[i]) \div 128) % 2 = 1
         /\ (WriteByte(trace[i]) \div 8) % 2 = 0
         /\ (WriteByte(trace[i]) \div 4) % 2 = 0

C15_Witness ==
    /\ last.op = "get_touch"
    /\ Len(trace) = 2
    /\ ~trace[2].reply.ok
    /\ given.irq
    /\ WriteByte(trace[2]) = 144
    /\ Len(trace[2].ops[2].bytes) = 2

(***************************************************************************)
(* C16.  The state of a driver is changed by configuration calls only: a   *)
(* get_touch step, whether it returns a touch, the absent value or an      *)
(* error after any number of transactions, leaves the irq flag and the     *)
(* threshold as they were; on an existing driver a step that changes the   *)
(* irq flag is a set_irq and a step that changes the threshold is a        *)
(* set_touch_threshold.                                                    *)
(***************************************************************************)
C16_OnlyConfigurationMutates ==
    [][ /\ last'.op = "get_touch" =>
             /\ irq_on' = irq_on
             /\ touch_threshold' = touch_threshold
             /\ alive' = alive
        /\ alive /\ irq_on' # irq_on => last'.op = "set_irq"
        /\ alive /\ touch_threshold' # touch_threshold =>
             last'.op = "set_touch_threshold"
        /\ last'.op = "set_irq" => touch_threshold' = touch_threshold
        /\ last'.op = "set_touch_threshold" => irq_on' = irq_on ]_vars

\* a get_touch that failed on its second transaction, on a driver whose flag
\* and threshold are not the placeholders of Init, left both as they were
C16_Witness ==
    /\ last.op = "get_touch"
    /\ last.result.kind = "Err"
    /\ Len(trace) = 2
    /\ last.pre.irq_on
    /\ irq_on
    /\ last.pre.touch_threshold = F32Exact(0, 10, 0)
    /\ touch_threshold = F32Exact(0, 10, 0)

(***************************************************************************)
(* C17.  The result of a get_touch is determined by the four replies of    *)
(* that call and the current threshold alone: a completed get_touch that   *)
(* receives the replies and runs under the threshold of an earlier         *)
(* completed call returns what that call returned, whatever the irq flag   *)
(* is now and whatever calls (get_touch with other replies, failed ones,   *)
(* configuration calls) took place in between.                             *)
(***************************************************************************)
C17_IndependentSample ==
    /\ ref.set
    /\ TouchDone
    /\ touch_threshold = ref.thr
    /\ ReplyBufs(trace) = ref.bufs
    => last.result = ref.result

\* the replies of the kept sample come again after another get_touch and
\* with the irq flag changed, and the same touch point is returned
C17_Witness ==
    /\ ref.set
    /\ ref.other
    /\ ref.irq # irq_on
    /\ TouchDone
    /\ touch_threshold = ref.thr
    /\ ReplyBufs(trace) = ref.bufs
    /\ last.result = ref.result
    /\ last.result.kind = "OkSome"

====
